---- MODULE Spec2Model ----
(***************************************************************************)
(* A model of tools/train_genre_classifier.py: the accumulation loop of    *)
(* main() (validation of the genre index, resampling, embedding            *)
(* extraction, error counting), the shuffle and the 80/20 split, the       *)
(* EarlyStopping policy that model.fit is configured with, and the order   *)
(* of the stages of one run.                                               *)
(***************************************************************************)
EXTENDS Integers, Sequences, FiniteSets, TLC

VARIABLES
    argv1,            \* sys.argv[1], or "" when absent
    tf_minor,         \* minor of tf.__version__ (major is 2)
    pc,               \* position of the run in main()
    crashed_at,       \* the position where an unhandled exception ended the run
    banner,           \* number of "Using simple model architecture" lines printed
    version_msg,      \* which branch of check_tensorflow_version printed
    dataset,          \* the examples the loader yields, in order
    i,                \* number of examples the loop has iterated
    embeddings_list,
    labels_list,
    count,
    errors,
    invalid_lines,    \* "Invalid genre index" lines printed
    error_lines,      \* "Error processing track" lines printed
    progress_lines,   \* "Processed n tracks..." lines printed
    X, y,
    X_train, X_test, y_train, y_test,
    model_arch,       \* the architecture of the network that was built
    trace,            \* the components that have completed, in order
    steps,            \* the components that have acted, in order (a run of
                      \* consecutive actions of one component is one entry)
    files,            \* files written to the working directory
    epoch,            \* passes over the training set completed by fit
    weights,          \* the network state, named by the pass that produced it
    wait, best, best_weights, stop_training,   \* EarlyStopping's fields
    audio_len, sample_rate, new_len, resampled \* one run of the resampling step

loopVars  == <<dataset, i, embeddings_list, labels_list, count, errors,
               invalid_lines, error_lines, progress_lines>>
splitVars == <<X, y, X_train, X_test, y_train, y_test>>
runVars   == <<argv1, tf_minor, crashed_at, banner, version_msg, model_arch,
               trace, files>>
fitVars   == <<epoch, weights, wait, best, best_weights, stop_training>>
resVars   == <<audio_len, sample_rate, new_len, resampled>>
vars      == <<pc, steps, loopVars, splitVars, runVars, fitVars, resVars>>

(***************************************************************************)
(* Bounds of the model.                                                    *)
(***************************************************************************)
MaxTracks      == 3   \* examples per dataset, genre-validation specification
MaxErrTracks   == 7   \* examples per dataset, error-counting specification
MaxSplitTracks == 4   \* examples per dataset, shuffle specification
MaxSizeTracks  == 6   \* examples per dataset, split-sizes specification
MaxRunTracks   == 2   \* examples per dataset, whole-run specification
MaxLen         == 24  \* samples per waveform, resampling specification
MaxLoss        == 5   \* validation losses range over 0..MaxLoss

(***************************************************************************)
(* Program constants.                                                      *)
(***************************************************************************)
GENRES == <<"blues", "classical", "country", "disco", "hiphop",
            "jazz", "metal", "pop", "reggae", "rock">>
TargetRate    == 16000
MaxErrorLines == 5
ProgressEvery == 100
Epochs        == 50
Patience      == 10

(***************************************************************************)
(* Inputs.  A genre value carries its Python type: isinstance(v, int)      *)
(* holds for int and for bool (a subclass of int), not for float or str.   *)
(***************************************************************************)
IntG(n)   == [type |-> "int",   val |-> n]
BoolG(n)  == [type |-> "bool",  val |-> n]
FloatG(n) == [type |-> "float", val |-> n]   \* the float n.0
StrG      == [type |-> "str",   val |-> 0]

\* A dataset example: its genre, its waveform's length and sampling rate,
\* whether YAMNet raises on it, and whether reading it (lines 115-120:
\* decoding example['audio'], np.array) succeeds.
Track(g, l, r, f) ==
    [genre |-> g, len |-> l, rate |-> r, yamnet_fails |-> f, readable |-> TRUE]

\* An example the dataset library fails to decode.
Undecodable ==
    [genre |-> IntG(0), len |-> 0, rate |-> 0, yamnet_fails |-> FALSE,
     readable |-> FALSE]

isinstance_int(g) == g.type \in {"int", "bool"}

\* Line 123 with its bounds check off by one (accepts len(GENRES)).
ValidGenreOffByOne(g) ==
    isinstance_int(g) /\ g.val >= 0 /\ g.val <= Len(GENRES)

\* Line 123 without the isinstance test.
ValidGenreNoTypeCheck(g) == g.val >= 0 /\ g.val < Len(GENRES)

\* Line 123, negated: the example passes the validation.
ValidGenre(g) ==
    isinstance_int(g) /\ g.val >= 0 /\ g.val < Len(GENRES)

(***************************************************************************)
(* Resampling, lines 129-133.  ratio = 16000 / sample_rate and             *)
(* new_len = int(len(audio) * ratio) are computed in binary floating       *)
(* point; for every length and rate of this model the truncated float      *)
(* product equals the exact quotient floor(len * 16000 / rate), which is   *)
(* what the integer division computes.                                     *)
(***************************************************************************)
\* Line 131 with the ratio inverted (sample_rate / 16000).
ResampleLenInverted(L, R) == (L * R) \div TargetRate

\* Line 130-131: new_len, for a rate R > 0.
ResampleLen(L, R) == (L * TargetRate) \div R

\* Lines 129-133 raise: 16000 / 0 is a ZeroDivisionError, and np.interp
\* rejects an empty array of sample points (len(audio) = 0) with ValueError.
ResampleRaises(L, R) == R # TargetRate /\ (R = 0 \/ L = 0)

\* Length of audio after lines 129-133, when they do not raise: unchanged at
\* 16000 Hz, else the length of indices, which is new_len.
ResampledLen(L, R) == IF R = TargetRate THEN L ELSE ResampleLen(L, R)

\* extract_embeddings raises: np.abs(audio).max() of an empty array is a
\* ValueError (line 77), and the YAMNet call itself may raise (line 80).
ExtractRaises(n, yamnet_fails) == n = 0 \/ yamnet_fails

\* The body of the try block (lines 128-141) raises for example t.
TrackRaises(t) ==
    \/ ResampleRaises(t.len, t.rate)
    \/ ExtractRaises(ResampledLen(t.len, t.rate), t.yamnet_fails)

\* The averaged embedding of the k-th example: an opaque vector, named by
\* the example it was computed from.
extract_embeddings(k) == k

(***************************************************************************)
(* The components of the pipeline and the code each one is.  The loader is *)
(* the call at line 95.  The extractor/resampler loads YAMNet, takes each  *)
(* example off the dataset (lines 115-120), resamples it (129-133) and     *)
(* extracts its embedding (135); a failure of these is counted by the      *)
(* handler at lines 143-146.  The assembler checks the label (line 123),   *)
(* accumulates the pair (136-137), then builds the arrays, shuffles and    *)
(* splits (150-163).  The trainer is lines 165-199, the exporter 201-224,  *)
(* the verifier 226-244.  The steps of one pass of the loop have their own *)
(* names: "read", "validate", "resample", "extract", "append", "except".   *)
(***************************************************************************)
Component(p) ==
    CASE p \in {"load_dataset"} -> "loader"
      [] p \in {"load_yamnet", "read", "resample", "extract", "except"}
            -> "extractor"
      [] p \in {"validate", "append", "arrays", "shuffle", "split"}
            -> "assembler"
      [] p \in {"build", "fit", "evaluate"} -> "trainer"
      [] p \in {"convert", "write_tflite", "save_h5"} -> "exporter"
      [] p \in {"verify_load", "verify_invoke", "verify_print"} -> "verifier"
      [] OTHER -> "none"

\* The record of the components that acted, after component c acts.
Did(s, c) ==
    IF c = "none" \/ (s # <<>> /\ s[Len(s)] = c) THEN s ELSE Append(s, c)

\* The record after the steps ps are taken, in that order.
RECURSIVE Acted(_, _)
Acted(s, ps) ==
    IF ps = <<>> THEN s
    ELSE Acted(Did(s, Component(Head(ps))), Tail(ps))

\* The steps of the try block for example t, up to and including the one
\* that raises, if one does: line 129 skips the resampling at 16000 Hz.
TrySteps(t) ==
    IF t.rate = TargetRate THEN <<"extract">>
    ELSE IF ResampleRaises(t.len, t.rate) THEN <<"resample">>
    ELSE <<"resample", "extract">>

(***************************************************************************)
(* The accumulation loop, lines 113-148.                                   *)
(***************************************************************************)
\* Lines 123-125: an invalid genre index prints a line and continues.
SkipInvalid ==
    /\ pc = "loop"
    /\ i < Len(dataset)
    /\ dataset[i + 1].readable
    /\ ~ValidGenre(dataset[i + 1].genre)
    /\ steps' = Acted(steps, <<"read", "validate">>)
    /\ i' = i + 1
    /\ invalid_lines' = invalid_lines + 1
    /\ UNCHANGED <<pc, dataset, embeddings_list, labels_list, count, errors,
                   error_lines, progress_lines>>
    /\ UNCHANGED <<splitVars, runVars, fitVars, resVars>>

\* Lines 136-137 with the label appended before the extraction is tried.
ProcessTrackLabelFirst ==
    /\ pc = "loop"
    /\ i < Len(dataset)
    /\ dataset[i + 1].readable
    /\ ValidGenre(dataset[i + 1].genre)
    /\ steps' = Acted(steps, <<"read", "validate", "append">> \o TrySteps(dataset[i + 1]))
    /\ i' = i + 1
    /\ labels_list' = Append(labels_list, dataset[i + 1].genre.val)
    /\ IF TrackRaises(dataset[i + 1])
         THEN /\ errors' = errors + 1
              /\ error_lines' = error_lines + 1
              /\ UNCHANGED <<embeddings_list, count>>
         ELSE /\ embeddings_list' =
                    Append(embeddings_list, extract_embeddings(i + 1))
              /\ count' = count + 1
              /\ UNCHANGED <<errors, error_lines>>
    /\ UNCHANGED <<pc, dataset, invalid_lines, progress_lines>>
    /\ UNCHANGED <<splitVars, runVars, fitVars, resVars>>

\* Lines 127-141: the try block runs to its end.
ProcessTrack ==
    /\ pc = "loop"
    /\ i < Len(dataset)
    /\ dataset[i + 1].readable
    /\ ValidGenre(dataset[i + 1].genre)
    /\ ~TrackRaises(dataset[i + 1])
    /\ steps' = Acted(steps, <<"read", "validate">> \o TrySteps(dataset[i + 1])
                              \o <<"append">>)
    /\ i' = i + 1
    /\ embeddings_list' = Append(embeddings_list, extract_embeddings(i + 1))
    /\ labels_list' = Append(labels_list, dataset[i + 1].genre.val)
    /\ count' = count + 1
    /\ progress_lines' = IF count' % ProgressEvery = 0
                           THEN progress_lines + 1 ELSE progress_lines
    /\ UNCHANGED <<pc, dataset, errors, invalid_lines, error_lines>>
    /\ UNCHANGED <<splitVars, runVars, fitVars, resVars>>

\* Line 145 without the cap: every error prints its line.
ErrorLinesUncapped(n, printed) == printed + 1

\* Lines 145-146: the line is printed while errors <= 5 (n is the count
\* after the increment).
ErrorLines(n, printed) == IF n <= MaxErrorLines THEN printed + 1 ELSE printed

\* Lines 143-146: the try block raised before the appends.
TrackError ==
    /\ pc = "loop"
    /\ i < Len(dataset)
    /\ dataset[i + 1].readable
    /\ ValidGenre(dataset[i + 1].genre)
    /\ TrackRaises(dataset[i + 1])
    /\ steps' = Acted(steps, <<"read", "validate">> \o TrySteps(dataset[i + 1])
                              \o <<"except">>)
    /\ i' = i + 1
    /\ errors' = errors + 1
    /\ error_lines' = ErrorLines(errors', error_lines)
    /\ UNCHANGED <<pc, dataset, embeddings_list, labels_list, count,
                   invalid_lines, progress_lines>>
    /\ UNCHANGED <<splitVars, runVars, fitVars, resVars>>

\* Lines 115-120 raise: the iteration or the reading of the example fails
\* before the try of line 127, so nothing catches it and the run ends.
LoopReadRaise ==
    /\ pc = "loop"
    /\ steps' = Acted(steps, <<"read">>)
    /\ i < Len(dataset)
    /\ ~dataset[i + 1].readable
    /\ pc' = "crashed"
    /\ crashed_at' = "loop"
    /\ UNCHANGED <<argv1, tf_minor, banner, version_msg, model_arch, trace,
                   files>>
    /\ UNCHANGED <<loopVars, splitVars, fitVars, resVars>>

\* Line 148: the loop is exhausted and the totals are printed.
EndLoop ==
    /\ pc = "loop"
    /\ UNCHANGED steps
    /\ i = Len(dataset)
    /\ pc' = "arrays"
    /\ trace' = Append(trace, "extractor")
    /\ UNCHANGED <<argv1, tf_minor, crashed_at, banner, version_msg,
                   model_arch, files>>
    /\ UNCHANGED <<loopVars, splitVars, fitVars, resVars>>

\* Lines 150-153: the lists become arrays; X.shape[1] of an empty array is
\* an IndexError, which nothing catches.
MakeArrays ==
    /\ pc = "arrays"
    /\ steps' = Acted(steps, <<pc>>)
    /\ X' = embeddings_list
    /\ y' = labels_list
    /\ IF Len(embeddings_list) = 0
         THEN pc' = "crashed" /\ crashed_at' = "arrays"
         ELSE pc' = "shuffle" /\ UNCHANGED crashed_at
    /\ UNCHANGED <<X_train, X_test, y_train, y_test>>
    /\ UNCHANGED <<argv1, tf_minor, banner, version_msg, model_arch, trace,
                   files>>
    /\ UNCHANGED <<loopVars, fitVars, resVars>>

(***************************************************************************)
(* Shuffle and split, lines 155-163.                                       *)
(***************************************************************************)
\* np.random.permutation(n): the orderings of the indices (1..n here, 0..n-1
\* in the code).
RECURSIVE Orderings(_)
Orderings(S) ==
    IF S = {} THEN {<<>>}
    ELSE UNION {{Append(p, k) : p \in Orderings(S \ {k})} : k \in S}

permutation(n) == Orderings(1..n)

\* Line 157, X[indices].
TakeX(arr, indices) == [k \in 1..Len(indices) |-> arr[indices[k]]]

\* Line 157 with the labels left in discovery order.
TakeYUnshuffled(arr, indices) == arr

\* Line 157, y[indices].
TakeY(arr, indices) == [k \in 1..Len(indices) |-> arr[indices[k]]]

\* Line 156-157: one permutation reorders both arrays.
Shuffle ==
    /\ pc = "shuffle"
    /\ steps' = Acted(steps, <<pc>>)
    /\ \E indices \in permutation(Len(X)) :
          /\ X' = TakeX(X, indices)
          /\ y' = TakeY(y, indices)
    /\ pc' = "split"
    /\ UNCHANGED <<X_train, X_test, y_train, y_test>>
    /\ UNCHANGED <<loopVars, runVars, fitVars, resVars>>

\* Line 159 with the fraction rounded up.
SplitIndexCeil(n) == (8 * n + 9) \div 10

\* Line 159: split = int(0.8 * len(X)).  The float product 0.8 * n truncates
\* to floor(8n / 10) for every n (0.8 is stored slightly above 4/5, and the
\* product never rounds up across an integer).
SplitIndex(n) == (8 * n) \div 10

\* Lines 159-163.
Split ==
    /\ pc = "split"
    /\ steps' = Acted(steps, <<pc>>)
    /\ LET split == SplitIndex(Len(X)) IN
          /\ X_train' = SubSeq(X, 1, split)
          /\ X_test'  = SubSeq(X, split + 1, Len(X))
          /\ y_train' = SubSeq(y, 1, split)
          /\ y_test'  = SubSeq(y, split + 1, Len(y))
    /\ pc' = "build"
    /\ trace' = Append(trace, "assembler")
    /\ UNCHANGED <<X, y>>
    /\ UNCHANGED <<argv1, tf_minor, crashed_at, banner, version_msg,
                   model_arch, files>>
    /\ UNCHANGED <<loopVars, fitVars, resVars>>

(***************************************************************************)
(* Datasets the specifications draw from.                                  *)
(***************************************************************************)
RECURSIVE SeqsUpTo(_, _)
SeqsUpTo(S, n) ==
    IF n = 0 THEN {<<>>}
    ELSE LET shorter == SeqsUpTo(S, n - 1) IN
         shorter \cup {Append(q, t) : q \in {r \in shorter : Len(r) = n - 1},
                                      t \in S}

\* A two-sample track at GTZAN's 22050 Hz (resampled to one sample), an
\* empty track (np.interp raises), and a 16 kHz track YAMNet fails on.
GoodAudio(g)   == Track(g, 2, 22050, FALSE)
EmptyAudio(g)  == Track(g, 0, 22050, FALSE)
YamnetFails(g) == Track(g, 2, TargetRate, TRUE)
\* One sample at 48 kHz resamples to no sample at all: extraction raises.
ShortAudio(g)  == Track(g, 1, 48000, FALSE)

ValidGenres   == {IntG(0), IntG(9), BoolG(1)}
InvalidGenres == {IntG(-1), IntG(10), FloatG(3), StrG}

RichTracks ==
    {GoodAudio(g) : g \in ValidGenres \cup InvalidGenres}
    \cup {EmptyAudio(g) : g \in ValidGenres}
    \cup {YamnetFails(g) : g \in ValidGenres}
    \cup {ShortAudio(IntG(9)), Undecodable}

ThinTracks ==
    {GoodAudio(IntG(0)), GoodAudio(IntG(9)), YamnetFails(IntG(0)),
     GoodAudio(IntG(10)), Undecodable}

\* The values no specification of the loop touches.
IdleRest ==
    /\ argv1 = "" /\ tf_minor = 14 /\ crashed_at = "" /\ banner = 0
    /\ version_msg = "" /\ model_arch = "" /\ files = {}
    /\ epoch = 0 /\ weights = 0 /\ wait = 0 /\ best = 0 /\ best_weights = <<>>
    /\ stop_training = FALSE
    /\ audio_len = 0 /\ sample_rate = TargetRate /\ new_len = 0
    /\ resampled = "none"

\* The state at line 115, before the first example, for a dataset from D.
AtLoop(D, n) ==
    /\ dataset \in SeqsUpTo(D, n)
    /\ pc = "loop"
    /\ i = 0 /\ embeddings_list = <<>> /\ labels_list = <<>>
    /\ count = 0 /\ errors = 0
    /\ invalid_lines = 0 /\ error_lines = 0 /\ progress_lines = 0
    /\ X = <<>> /\ y = <<>>
    /\ X_train = <<>> /\ X_test = <<>> /\ y_train = <<>> /\ y_test = <<>>
    /\ trace = <<"loader">>
    /\ steps = <<"loader", "extractor">>

NextLoop ==
    \/ SkipInvalid \/ ProcessTrack \/ TrackError \/ LoopReadRaise
    \/ EndLoop \/ MakeArrays

InitLoop == AtLoop(RichTracks, MaxTracks) /\ IdleRest
SpecLoop == InitLoop /\ [][NextLoop]_vars

ErrTracks ==
    {GoodAudio(IntG(0)), YamnetFails(IntG(0)), GoodAudio(IntG(10)),
     Undecodable}

InitErrors == AtLoop(ErrTracks, MaxErrTracks) /\ IdleRest
SpecErrors == InitErrors /\ [][NextLoop]_vars

NextSplit == NextLoop \/ Shuffle \/ Split
InitSplit == AtLoop(ThinTracks, MaxSplitTracks) /\ IdleRest
SpecSplit == InitSplit /\ [][NextSplit]_vars

InitSizes == AtLoop(ErrTracks, MaxSizeTracks) /\ IdleRest
SpecSizes == InitSizes /\ [][NextSplit]_vars

(***************************************************************************)
(* The resampling step on its own, lines 128-133.                          *)
(***************************************************************************)
Rates == {0, 8000, 11025, TargetRate, 22050, 44100, 48000}

\* Line 129 is false: the waveform is passed on as it is.
ResampleSkip ==
    /\ pc = "resample"
    /\ UNCHANGED steps
    /\ sample_rate = TargetRate
    /\ resampled' = "unchanged"
    /\ pc' = "extract"
    /\ UNCHANGED <<audio_len, sample_rate, new_len>>
    /\ UNCHANGED <<loopVars, splitVars, runVars, fitVars>>

\* Lines 130-133 run to their end: audio becomes the interpolated array,
\* which has one sample per index, new_len in all.
ResampleInterp ==
    /\ pc = "resample"
    /\ steps' = Acted(steps, <<"resample">>)
    /\ sample_rate # TargetRate
    /\ ~ResampleRaises(audio_len, sample_rate)
    /\ new_len' = ResampleLen(audio_len, sample_rate)
    /\ resampled' = "interpolated"
    /\ pc' = "extract"
    /\ UNCHANGED <<audio_len, sample_rate>>
    /\ UNCHANGED <<loopVars, splitVars, runVars, fitVars>>

\* Lines 130-133 raise; the handler at line 143 takes over.
ResampleRaise ==
    /\ pc = "resample"
    /\ steps' = Acted(steps, <<"resample">>)
    /\ ResampleRaises(audio_len, sample_rate)
    /\ new_len' = IF sample_rate = 0 THEN new_len
                  ELSE ResampleLen(audio_len, sample_rate)
    /\ resampled' = "raised"
    /\ pc' = "except"
    /\ UNCHANGED <<audio_len, sample_rate>>
    /\ UNCHANGED <<loopVars, splitVars, runVars, fitVars>>

NextResample == ResampleSkip \/ ResampleInterp \/ ResampleRaise

InitResample ==
    /\ pc = "resample"
    /\ audio_len \in 0..MaxLen
    /\ sample_rate \in Rates
    /\ new_len = 0
    /\ resampled = "none"
    /\ dataset = <<>> /\ i = 0
    /\ embeddings_list = <<>> /\ labels_list = <<>>
    /\ count = 0 /\ errors = 0
    /\ invalid_lines = 0 /\ error_lines = 0 /\ progress_lines = 0
    /\ X = <<>> /\ y = <<>>
    /\ X_train = <<>> /\ X_test = <<>> /\ y_train = <<>> /\ y_test = <<>>
    /\ argv1 = "" /\ tf_minor = 14 /\ crashed_at = "" /\ banner = 0
    /\ version_msg = "" /\ model_arch = "" /\ files = {}
    /\ trace = <<"loader">>
    /\ steps = <<"loader", "extractor", "assembler">>
    /\ epoch = 0 /\ weights = 0 /\ wait = 0 /\ best = 0 /\ best_weights = <<>>
    /\ stop_training = FALSE

SpecResample == InitResample /\ [][NextResample]_vars

(***************************************************************************)
(* model.fit with EarlyStopping(patience=10, restore_best_weights=True),   *)
(* lines 186-195.  The callback monitors val_loss.  TensorFlow up to 2.15  *)
(* ships Keras 2, whose callback restores the best weights only when it    *)
(* stops the training itself; from 2.16 on Keras 3 restores them when      *)
(* training ends, however it ends.  The script runs under either           *)
(* (check_tensorflow_version, lines 25-44).                                *)
(***************************************************************************)
TfMinors == {13, 14, 16, 17}

Keras3(minor) == minor >= 16

\* EarlyStopping.best before the first pass: worse than every loss.
Inf == MaxLoss + 1

\* One pass over the training set and the callback's on_epoch_end.
FitEpoch ==
    /\ pc = "fit"
    /\ steps' = Acted(steps, <<pc>>)
    /\ Len(X_train) > 0
    /\ epoch < Epochs
    /\ ~stop_training
    /\ epoch' = epoch + 1
    /\ \E val_loss \in 0..MaxLoss :
          IF val_loss < best
            THEN /\ best' = val_loss
                 /\ best_weights' = <<epoch'>>
                 /\ wait' = 0
                 /\ weights' = epoch'
                 /\ UNCHANGED stop_training
            ELSE /\ wait' = wait + 1
                 /\ best_weights' =
                       IF best_weights = <<>> THEN <<epoch'>> ELSE best_weights
                 /\ UNCHANGED best
                 /\ IF wait' >= Patience /\ epoch' > 1
                      THEN /\ stop_training' = TRUE
                           /\ weights' = IF Keras3(tf_minor) THEN epoch'
                                         ELSE best_weights'[1]
                      ELSE /\ UNCHANGED stop_training
                           /\ weights' = epoch'
    /\ UNCHANGED pc
    /\ UNCHANGED <<loopVars, splitVars, runVars, resVars>>

\* fit returns: all passes ran or the callback stopped it; on_train_end.
FitEnd ==
    /\ pc = "fit"
    /\ steps' = Acted(steps, <<pc>>)
    /\ Len(X_train) > 0
    /\ epoch = Epochs \/ stop_training
    /\ weights' = IF Keras3(tf_minor) /\ best_weights # <<>>
                    THEN best_weights[1] ELSE weights
    /\ pc' = "evaluate"
    /\ UNCHANGED <<epoch, wait, best, best_weights, stop_training>>
    /\ UNCHANGED <<loopVars, splitVars, runVars, resVars>>

NextTrain == FitEpoch \/ FitEnd

\* The state at line 186 for a dataset of two good examples.
InitTrain ==
    /\ pc = "fit"
    /\ tf_minor \in TfMinors
    /\ dataset = <<GoodAudio(IntG(0)), GoodAudio(IntG(9))>>
    /\ i = 2 /\ embeddings_list = <<1, 2>> /\ labels_list = <<0, 9>>
    /\ count = 2 /\ errors = 0
    /\ invalid_lines = 0 /\ error_lines = 0 /\ progress_lines = 0
    /\ \E indices \in permutation(2) :
          /\ X = TakeX(embeddings_list, indices)
          /\ y = TakeY(labels_list, indices)
    /\ X_train = SubSeq(X, 1, 1) /\ X_test = SubSeq(X, 2, 2)
    /\ y_train = SubSeq(y, 1, 1) /\ y_test = SubSeq(y, 2, 2)
    /\ argv1 = "" /\ crashed_at = "" /\ banner = 0
    /\ version_msg = "" /\ model_arch = "dense_256_128" /\ files = {}
    /\ trace = <<"loader", "extractor", "assembler">>
    /\ steps = Acted(<<>>, <<"load_dataset", "load_yamnet">>
                            \o <<"read", "validate">> \o TrySteps(dataset[1])
                            \o <<"append">>
                            \o <<"read", "validate">> \o TrySteps(dataset[2])
                            \o <<"append">>
                            \o <<"arrays", "shuffle", "split", "build">>)
    /\ epoch = 0 /\ weights = 0 /\ wait = 0 /\ best = Inf
    /\ best_weights = <<>> /\ stop_training = FALSE
    /\ audio_len = 0 /\ sample_rate = TargetRate /\ new_len = 0
    /\ resampled = "none"

SpecTrain == InitTrain /\ [][NextTrain]_vars

(***************************************************************************)
(* The whole run: the guard at lines 283-288, then main().                 *)
(***************************************************************************)
\* Lines 285-286: the flag prints one line.
BannerLines(a) == IF a = "--simple" THEN 1 ELSE 0

\* Lines 32-44: the branch of check_tensorflow_version that prints.
VersionMessage(minor) ==
    IF minor >= 17 THEN "requires_tflite_2_17"
    ELSE IF minor = 16 THEN "warning_2_16"
    ELSE IF minor >= 14 THEN "good"
    ELSE "should_be_compatible"

\* The network built if the flag selected create_simple_model (lines 266-280).
ArchitectureBySimpleFlag(a) ==
    IF a = "--simple" THEN "dense_64" ELSE "dense_256_128"

\* Lines 167-174: main() builds the 256/128 network whatever the arguments.
Architecture(a) == "dense_256_128"

\* Lines 283-287.
Start ==
    /\ pc = "start"
    /\ UNCHANGED steps
    /\ banner' = BannerLines(argv1)
    /\ pc' = "check_tf"
    /\ UNCHANGED <<argv1, tf_minor, crashed_at, version_msg, model_arch,
                   trace, files>>
    /\ UNCHANGED <<loopVars, splitVars, fitVars, resVars>>

\* Line 92.
CheckVersion ==
    /\ pc = "check_tf"
    /\ UNCHANGED steps
    /\ version_msg' = VersionMessage(tf_minor)
    /\ pc' = "load_dataset"
    /\ UNCHANGED <<argv1, tf_minor, crashed_at, banner, model_arch, trace,
                   files>>
    /\ UNCHANGED <<loopVars, splitVars, fitVars, resVars>>

\* Line 95: the loader returns the dataset.
LoadDataset ==
    /\ pc = "load_dataset"
    /\ steps' = Acted(steps, <<pc>>)
    /\ pc' = "load_yamnet"
    /\ trace' = Append(trace, "loader")
    /\ UNCHANGED <<argv1, tf_minor, crashed_at, banner, version_msg,
                   model_arch, files>>
    /\ UNCHANGED <<loopVars, splitVars, fitVars, resVars>>

\* Lines 98-114.
LoadYamnet ==
    /\ pc = "load_yamnet"
    /\ steps' = Acted(steps, <<pc>>)
    /\ pc' = "loop"
    /\ UNCHANGED <<loopVars, splitVars, runVars, fitVars, resVars>>

\* Lines 166-182.
BuildModel ==
    /\ pc = "build"
    /\ steps' = Acted(steps, <<pc>>)
    /\ model_arch' = Architecture(argv1)
    /\ pc' = "fit"
    /\ UNCHANGED <<argv1, tf_minor, crashed_at, banner, version_msg, trace,
                   files>>
    /\ UNCHANGED <<loopVars, splitVars, fitVars, resVars>>

\* Line 186 on an empty training set (one assembled example): fit raises.
FitEmpty ==
    /\ pc = "fit"
    /\ steps' = Acted(steps, <<pc>>)
    /\ Len(X_train) = 0
    /\ pc' = "crashed"
    /\ crashed_at' = "fit"
    /\ UNCHANGED <<argv1, tf_minor, banner, version_msg, model_arch, trace,
                   files>>
    /\ UNCHANGED <<loopVars, splitVars, fitVars, resVars>>

\* Lines 198-199.
Evaluate ==
    /\ pc = "evaluate"
    /\ steps' = Acted(steps, <<pc>>)
    /\ pc' = "convert"
    /\ trace' = Append(trace, "trainer")
    /\ UNCHANGED <<argv1, tf_minor, crashed_at, banner, version_msg,
                   model_arch, files>>
    /\ UNCHANGED <<loopVars, splitVars, fitVars, resVars>>

\* Lines 202-212.
Convert ==
    /\ pc = "convert"
    /\ steps' = Acted(steps, <<pc>>)
    /\ pc' = "write_tflite"
    /\ UNCHANGED <<loopVars, splitVars, runVars, fitVars, resVars>>

\* A file of the working directory: its name and what it holds, the output
\* of an earlier run ("earlier"), the whole output of this run ("new"), or
\* what open(..., 'wb') and an unfinished write left ("partial").
File(name, content) == [name |-> name, content |-> content]

\* The directory after the file of that name is created or overwritten.
Put(dir, name, content) ==
    {f \in dir : f.name # name} \cup {File(name, content)}

\* What an earlier run of the script left in the working directory.
EarlierFiles ==
    {File("genre_classifier.tflite", "earlier"),
     File("genre_classifier.h5", "earlier")}

\* The file written at a position of the exporter.
Target(p) ==
    IF p = "write_tflite" THEN "genre_classifier.tflite"
    ELSE "genre_classifier.h5"

\* Lines 214-220.
WriteTflite ==
    /\ pc = "write_tflite"
    /\ steps' = Acted(steps, <<pc>>)
    /\ files' = Put(files, "genre_classifier.tflite", "new")
    /\ pc' = "save_h5"
    /\ UNCHANGED <<argv1, tf_minor, crashed_at, banner, version_msg,
                   model_arch, trace>>
    /\ UNCHANGED <<loopVars, splitVars, fitVars, resVars>>

\* Lines 223-224 placed after the verification: nothing is saved here.
SaveH5Deferred ==
    /\ pc = "save_h5"
    /\ steps' = Acted(steps, <<pc>>)
    /\ pc' = "verify_load"
    /\ trace' = Append(trace, "exporter")
    /\ UNCHANGED <<argv1, tf_minor, crashed_at, banner, version_msg,
                   model_arch, files>>
    /\ UNCHANGED <<loopVars, splitVars, fitVars, resVars>>

\* Lines 223-224.
SaveH5 ==
    /\ pc = "save_h5"
    /\ steps' = Acted(steps, <<pc>>)
    /\ files' = Put(files, "genre_classifier.h5", "new")
    /\ pc' = "verify_load"
    /\ trace' = Append(trace, "exporter")
    /\ UNCHANGED <<argv1, tf_minor, crashed_at, banner, version_msg,
                   model_arch>>
    /\ UNCHANGED <<loopVars, splitVars, fitVars, resVars>>

\* Lines 227-235: the interpreter loads the converted model.
VerifyLoad ==
    /\ pc = "verify_load"
    /\ steps' = Acted(steps, <<pc>>)
    /\ pc' = "verify_invoke"
    /\ UNCHANGED <<loopVars, splitVars, runVars, fitVars, resVars>>

\* Lines 238-241: one prediction on X_test[0:1].
VerifyInvoke ==
    /\ pc = "verify_invoke"
    /\ steps' = Acted(steps, <<pc>>)
    /\ pc' = "verify_print"
    /\ UNCHANGED <<loopVars, splitVars, runVars, fitVars, resVars>>

\* Lines 242-263: predicted against actual genre, then the closing notes.
VerifyPrint ==
    /\ pc = "verify_print"
    /\ steps' = Acted(steps, <<pc>>)
    /\ y_test[1] + 1 \in DOMAIN GENRES
    /\ pc' = "done"
    /\ trace' = Append(trace, "verifier")
    /\ UNCHANGED <<argv1, tf_minor, crashed_at, banner, version_msg,
                   model_arch, files>>
    /\ UNCHANGED <<loopVars, splitVars, fitVars, resVars>>

\* The calls into the hub, the file system and TensorFlow that may raise;
\* nothing in main() catches them.
Fallible ==
    {"load_dataset", "load_yamnet", "build", "fit", "evaluate", "convert",
     "write_tflite", "save_h5", "verify_load", "verify_invoke"}

Raise ==
    /\ pc \in Fallible
    /\ steps' = Acted(steps, <<pc>>)
    /\ pc' = "crashed"
    /\ crashed_at' = pc
    /\ UNCHANGED <<argv1, tf_minor, banner, version_msg, model_arch, trace,
                   files>>
    /\ UNCHANGED <<loopVars, splitVars, fitVars, resVars>>

\* Lines 215-216 and 223 fail once the file is open: open(..., 'wb') has
\* created it, or truncated the one an earlier run left, and the write did
\* not finish.
WriteRaise ==
    /\ pc \in {"write_tflite", "save_h5"}
    /\ steps' = Acted(steps, <<pc>>)
    /\ files' = Put(files, Target(pc), "partial")
    /\ pc' = "crashed"
    /\ crashed_at' = pc
    /\ UNCHANGED <<argv1, tf_minor, banner, version_msg, model_arch, trace>>
    /\ UNCHANGED <<loopVars, splitVars, fitVars, resVars>>

Init ==
    /\ pc = "start"
    /\ argv1 \in {"", "--simple"}
    /\ tf_minor \in TfMinors
    /\ dataset \in SeqsUpTo(ErrTracks, MaxRunTracks)
    /\ i = 0 /\ embeddings_list = <<>> /\ labels_list = <<>>
    /\ count = 0 /\ errors = 0
    /\ invalid_lines = 0 /\ error_lines = 0 /\ progress_lines = 0
    /\ X = <<>> /\ y = <<>>
    /\ X_train = <<>> /\ X_test = <<>> /\ y_train = <<>> /\ y_test = <<>>
    /\ crashed_at = "" /\ banner = 0
    /\ version_msg = "" /\ model_arch = ""
    /\ files \in {{}, EarlierFiles}
    /\ trace = <<>>
    /\ steps = <<>>
    /\ epoch = 0 /\ weights = 0 /\ wait = 0 /\ best = Inf
    /\ best_weights = <<>> /\ stop_training = FALSE
    /\ audio_len = 0 /\ sample_rate = TargetRate /\ new_len = 0
    /\ resampled = "none"

Next ==
    \/ Start \/ CheckVersion \/ LoadDataset \/ LoadYamnet
    \/ SkipInvalid \/ ProcessTrack \/ TrackError \/ LoopReadRaise
    \/ EndLoop \/ MakeArrays
    \/ Shuffle \/ Split
    \/ BuildModel \/ FitEmpty \/ FitEpoch \/ FitEnd \/ Evaluate
    \/ Convert \/ WriteTflite \/ SaveH5
    \/ VerifyLoad \/ VerifyInvoke \/ VerifyPrint
    \/ Raise \/ WriteRaise

Spec == Init /\ [][Next]_vars

(***************************************************************************)
(* Vocabulary of the properties.                                           *)
(***************************************************************************)
Range(q) == {q[k] : k \in DOMAIN q}

\* The genre value is a Python int (bool included) in lo..hi-1.
LabelIn(g, lo, hi) == g.type \in {"int", "bool"} /\ lo <= g.val /\ g.val < hi

\* Examples of the dataset among the first n whose label lies in [lo, hi).
LabelledIn(n, lo, hi) ==
    {k \in 1..n : LabelIn(dataset[k].genre, lo, hi)}

\* Examples among the first n whose label is accepted and whose resampling
\* or extraction raises.
Raising(n) ==
    {k \in 1..n : LabelIn(dataset[k].genre, 0, 10) /\ TrackRaises(dataset[k])}

\* The loop has run to its end (line 148 was reached).
AfterLoop == pc # "loop" /\ ~(pc = "crashed" /\ crashed_at = "loop")

(***************************************************************************)
(* C1 as stated: with N examples labelled in [0,9) and the others          *)
(* labelled outside it, the two lists have length exactly N after the      *)
(* loop and hold no label outside [0,9).  Stated for the runs in which no  *)
(* example raised, where the label alone decides.                          *)
(***************************************************************************)
C1_Original ==
    (AfterLoop /\ errors = 0) =>
        /\ Len(embeddings_list) = Cardinality(LabelledIn(Len(dataset), 0, 9))
        /\ Len(labels_list) = Cardinality(LabelledIn(Len(dataset), 0, 9))
        /\ \A k \in DOMAIN labels_list : labels_list[k] \in 0..8

(***************************************************************************)
(* C1 amended: after the accumulation loop both lists have length exactly  *)
(* N - errors, N being the number of examples whose label is an int in     *)
(* [0,10), and no label outside [0,10) appears in the labels.              *)
(***************************************************************************)
C1_Amended ==
    AfterLoop =>
        /\ Len(embeddings_list) =
              Cardinality(LabelledIn(Len(dataset), 0, 10)) - errors
        /\ Len(labels_list) =
              Cardinality(LabelledIn(Len(dataset), 0, 10)) - errors
        /\ \A k \in DOMAIN labels_list : labels_list[k] \in 0..9

C1_Witness ==
    /\ AfterLoop
    /\ 9 \in Range(labels_list)
    /\ invalid_lines >= 1
    /\ errors >= 1

Rejectable(g) == g.type \in {"float", "str"} \/ g.val = 10

(***************************************************************************)
(* C5: an example whose genre index is not an integer, or is 10, is        *)
(* rejected: no position of the final arrays X and y holds its embedding   *)
(* or its label; every position holds the embedding and the label of an    *)
(* example that is not of that kind.                                       *)
(***************************************************************************)
C5_RejectedAbsent ==
    (AfterLoop /\ pc # "arrays") =>
        /\ Len(X) = Len(y)
        /\ \A k \in DOMAIN dataset :
              Rejectable(dataset[k].genre) => extract_embeddings(k) \notin Range(X)
        /\ \A j \in DOMAIN X :
              /\ X[j] \in DOMAIN dataset
              /\ ~Rejectable(dataset[X[j]].genre)
              /\ y[j] = dataset[X[j]].genre.val

C5_Witness ==
    /\ pc = "shuffle"
    /\ \E k \in DOMAIN dataset : dataset[k].genre = FloatG(3)
    /\ \E k \in DOMAIN dataset : dataset[k].genre = IntG(10)
    /\ Len(X) >= 1

C10_Counts ==
    /\ count = Len(embeddings_list)
    /\ count = Len(labels_list)
    /\ i = count + errors + invalid_lines

(***************************************************************************)
(* C10: after every iteration count = len(embeddings_list) =               *)
(* len(labels_list), and the examples iterated are count + errors + the    *)
(* examples skipped for an invalid genre index; an iteration that raises   *)
(* leaves embeddings_list, labels_list and count unchanged.                *)
(***************************************************************************)
C10_LoopInvariant ==
    /\ []C10_Counts
    /\ [][errors' # errors =>
            UNCHANGED <<embeddings_list, labels_list, count>>]_vars

C10_Witness ==
    /\ pc = "loop"
    /\ count >= 1 /\ errors >= 1 /\ invalid_lines >= 1

(***************************************************************************)
(* C4 as stated: every per-example failure, a bad label included, is       *)
(* counted in errors, and at most five diagnostic lines are printed for    *)
(* all of them.                                                            *)
(***************************************************************************)
C4_Original ==
    /\ errors = Cardinality(Raising(i))
                  + Cardinality((1..i) \ LabelledIn(i, 0, 10))
    /\ invalid_lines + error_lines <= MaxErrorLines

C4_Counts ==
    /\ errors = Cardinality(Raising(i))
    /\ error_lines = (IF errors <= 5 THEN errors ELSE 5)
    /\ invalid_lines = Cardinality((1..i) \ LabelledIn(i, 0, 10))
    /\ \A k \in 1..i :
          (k \in Raising(i) \/ k \notin LabelledIn(i, 0, 10))
              => extract_embeddings(k) \notin Range(embeddings_list)

(***************************************************************************)
(* C4 amended: an exception raised by resampling or extraction is caught,  *)
(* counted in errors, drops the example and lets the loop go on to the     *)
(* next one, and its line is printed for the first five only; a bad label  *)
(* also drops the example and lets the loop go on, but is not counted in   *)
(* errors and prints its own line every time.                              *)
(***************************************************************************)
C4_Amended ==
    /\ []C4_Counts
    /\ [][(errors' # errors \/ invalid_lines' # invalid_lines) =>
            /\ pc' = "loop"
            /\ i' = i + 1
            /\ UNCHANGED <<embeddings_list, labels_list, count>>]_vars

C4_Witness ==
    /\ errors = 6
    /\ error_lines = 5
    /\ invalid_lines = 1

Occurrences(q, e) == Cardinality({k \in DOMAIN q : q[k] = e})

(***************************************************************************)
(* C2: the train partition has floor(0.8 N) examples and the test          *)
(* partition the other N - floor(0.8 N), N being the number of assembled   *)
(* examples, and every assembled example is in exactly one of the two.     *)
(***************************************************************************)
C2_SplitSizes ==
    pc = "build" =>
        /\ Len(X_train) = (4 * count) \div 5
        /\ Len(X_test) = count - (4 * count) \div 5
        /\ Len(y_train) = Len(X_train)
        /\ Len(y_test) = Len(X_test)
        /\ \A e \in Range(embeddings_list) :
              Occurrences(X_train, e) + Occurrences(X_test, e) = 1
        /\ Range(X_train) \cup Range(X_test) = Range(embeddings_list)

C2_Witness ==
    /\ pc = "build"
    /\ count = 6
    /\ Len(X_train) = 4
    /\ Len(X_test) = 2
    /\ X # embeddings_list

Paired(xs, ys) ==
    /\ Len(xs) = Len(ys)
    /\ \A k \in DOMAIN xs : ys[k] = dataset[xs[k]].genre.val

(***************************************************************************)
(* C3: one permutation reorders both arrays, so the embedding and the      *)
(* label appended together stay at a common index after the shuffle and    *)
(* inside the partition they land in.                                      *)
(***************************************************************************)
C3_PairingPreserved ==
    /\ pc \in {"split", "build"} => Paired(X, y)
    /\ pc = "build" => Paired(X_train, y_train) /\ Paired(X_test, y_test)

C3_Witness ==
    /\ pc = "build"
    /\ X # embeddings_list
    /\ 0 \in Range(y_train) /\ 9 \in Range(y_train)
    /\ y # labels_list

Abs(n) == IF n < 0 THEN -n ELSE n

\* The integers nearest to a / b (two of them on a tie).
Nearest(a, b) == {n \in {a \div b, a \div b + 1} : 2 * Abs(n * b - a) <= b}

Resampling == sample_rate # TargetRate /\ sample_rate > 0 /\ resampled # "none"

(***************************************************************************)
(* C6 as stated: for every length L >= 0 and every positive rate R other   *)
(* than 16000, the resampling step produces a waveform whose length is     *)
(* within one sample of round(L * 16000 / R).                              *)
(***************************************************************************)
C6_Original ==
    Resampling =>
        /\ resampled = "interpolated"
        /\ \A n \in Nearest(audio_len * 16000, sample_rate) :
              Abs(new_len - n) <= 1

(***************************************************************************)
(* C6 amended: for every length L >= 1 and every positive rate R other     *)
(* than 16000, the resampling step produces a waveform whose length is     *)
(* within one sample of round(L * 16000 / R); for L = 0 it raises and      *)
(* produces none.                                                          *)
(***************************************************************************)
C6_Amended ==
    Resampling =>
        /\ audio_len >= 1 =>
              /\ resampled = "interpolated"
              /\ \A n \in Nearest(audio_len * 16000, sample_rate) :
                    Abs(new_len - n) <= 1
        /\ audio_len = 0 => resampled = "raised"

C6_Witness ==
    /\ Resampling
    /\ resampled = "interpolated"
    /\ audio_len = 4 /\ sample_rate = 22050
    /\ new_len = 2
    /\ new_len \notin Nearest(audio_len * 16000, sample_rate)

(***************************************************************************)
(* C8: training ends after at most 50 passes, halts as soon as the         *)
(* validation loss has failed to improve for 10 consecutive passes, and    *)
(* whenever it has ended the network state used for evaluation and export  *)
(* is that of the pass with the best validation loss.                      *)
(***************************************************************************)
C8_BestStateAfterTraining ==
    /\ epoch <= Epochs
    /\ (pc = "fit" /\ wait >= Patience) => stop_training
    /\ pc = "evaluate" => best_weights # <<>> /\ weights = best_weights[1]

(***************************************************************************)
(* Positions of a run, and the order of the components.                    *)
(***************************************************************************)
Order ==
    <<"loader", "extractor", "assembler", "trainer", "exporter", "verifier">>

\* Where the run is, or where it was when it crashed.
Position == IF pc = "crashed" THEN crashed_at ELSE pc

\* The place of a component in the order.
OrderIndex(c) ==
    CASE c = "loader" -> 1
      [] c = "extractor" -> 2
      [] c = "assembler" -> 3
      [] c = "trainer" -> 4
      [] c = "exporter" -> 5
      [] c = "verifier" -> 6

\* The same, with the extractor/resampler and the assembler in one place:
\* the two share the accumulation loop.
Phase(c) == IF c = "assembler" THEN OrderIndex("extractor") ELSE OrderIndex(c)

\* Both outputs, written whole by this run.
BothFiles ==
    {File("genre_classifier.tflite", "new"), File("genre_classifier.h5", "new")}

\* The files this run has written whole.
Written == {f \in files : f.content = "new"}

\* Both files are written whole before the verifier's first step, and a
\* failure of the verifier leaves them so.
ExportBeforeVerifier ==
    /\ Component(Position) = "verifier" => files = BothFiles
    /\ Position = "done" => files = BothFiles

(***************************************************************************)
(* C9 as stated: the components act in the order loader,                   *)
(* extractor/resampler, assembler, trainer, exporter, verifier, each one   *)
(* starting only when the one before it has completed, so that no          *)
(* component acts after a later one has; both files are written before the *)
(* verifier's first step and stay written when the verifier fails.         *)
(***************************************************************************)
C9_Original ==
    /\ \A a \in 1..(Len(steps) - 1) :
          OrderIndex(steps[a]) <= OrderIndex(steps[a + 1])
    /\ ExportBeforeVerifier

(***************************************************************************)
(* C9, amended: the loader completes before the accumulation loop; in the  *)
(* loop the extractor/resampler and the assembler alternate, track by      *)
(* track; once the loop has ended the extractor/resampler never acts       *)
(* again; the assembler's arrays, shuffle and split, the trainer, the      *)
(* exporter and the verifier follow in that order, each starting only when *)
(* the one before it has completed; both files are written before the      *)
(* verifier's first step and stay written when the verifier fails.         *)
(***************************************************************************)
C9_Amended ==
    \* components complete in the order
    /\ trace = SubSeq(Order, 1, Len(trace))
    \* no component acts after one of a later phase has acted
    /\ \A a \in 1..(Len(steps) - 1) : Phase(steps[a]) <= Phase(steps[a + 1])
    \* the latest component to act (of the latest phase, by the above) acts
    \* only when the components of the earlier phases have completed
    /\ steps # <<>> =>
          \A k \in 1..Len(Order) :
             Phase(Order[k]) < Phase(steps[Len(steps)]) => k <= Len(trace)
    \* past line 148 (the extractor has completed) the latest component to
    \* act is never the extractor
    /\ (Len(trace) >= OrderIndex("extractor") /\ pc # "arrays")
          => steps[Len(steps)] # "extractor"
    /\ Position \in {"start", "check_tf"} => steps = <<>>
    /\ Position = "done" => trace = Order
    /\ ExportBeforeVerifier

\* A run whose loop alternated between the two components and whose
\* verifier failed with both files written.
C9_Witness ==
    /\ pc = "crashed"
    /\ crashed_at = "verify_invoke"
    /\ files = BothFiles
    /\ trace = SubSeq(Order, 1, 5)
    /\ \E a, b \in DOMAIN steps :
          a < b /\ steps[a] = "assembler" /\ steps[b] = "extractor"

CompletedAt(p) ==
    CASE p \in {"start", "check_tf", "load_dataset"} -> 0
      [] p \in {"load_yamnet", "loop"} -> 1
      [] p \in {"arrays", "shuffle", "split"} -> 2
      [] p \in {"build", "fit", "evaluate"} -> 3
      [] p \in {"convert", "write_tflite", "save_h5"} -> 4
      [] p \in {"verify_load", "verify_invoke", "verify_print"} -> 5
      [] OTHER -> 6

FilesAt(p) ==
    IF CompletedAt(p) <= 3 \/ p \in {"convert", "write_tflite"} THEN {}
    ELSE IF p = "save_h5" THEN {File("genre_classifier.tflite", "new")}
    ELSE BothFiles

(***************************************************************************)
(* C7: with or without "--simple" the run is the same pipeline: the        *)
(* components completed and the files written at each position do not      *)
(* depend on the flag, the flag adds one printed line, and the network of  *)
(* create_simple_model is never built.                                     *)
(***************************************************************************)
C7_SimpleFlagIsNoOp ==
    /\ trace = SubSeq(Order, 1, CompletedAt(Position))
    /\ Written = FilesAt(Position)
    /\ model_arch \in {"", "dense_256_128"}
    /\ (Position \in {"fit", "evaluate"} \/ CompletedAt(Position) >= 4)
          => model_arch = "dense_256_128"
    /\ banner = (IF argv1 = "--simple" /\ pc # "start" THEN 1 ELSE 0)

C7_Witness ==
    /\ argv1 = "--simple"
    /\ pc = "done"
    /\ banner = 1
    /\ model_arch = "dense_256_128"
    /\ files = BothFiles

====
